---- MODULE Spec2Model ----
(***************************************************************************)
(* Mailbox clean-up of LucidioK/pythontools: the desktop-client variant    *)
(* (src/CleanupEmails.py, Outlook over COM) and the hosted-mailbox variant *)
(* (src/email_cleanup.py, exchangelib).  Both keep the newest message of   *)
(* every conversation and discard the others.                              *)
(*                                                                         *)
(* Times are small naturals, entry ids are 1..NumMsgs, a categories string *)
(* is a sequence of one-character strings.                                 *)
(***************************************************************************)
EXTENDS Integers, Sequences, FiniteSets, TLC

\* ------------------------------------------------------------------ bounds
NumMsgs == 3
NumFolders == 2
MaxTime == 2
MaxEvents == 1

\* DEFAULT_START_DATE, "ten years before now", as a point of the time line.
DefaultStartDate == 1
\* re.IGNORECASE, the second positional argument of Pattern.match.
IGNORECASE == 2

Msgs == 1..NumMsgs
Convs == {1, 2}
Folders == 1..NumFolders
Times == 0..MaxTime
CutoffTimes == 0..(MaxTime + 1)
None == 0

\* ------------------------------------------------------- categories strings
NoCategory == <<>>
KeepCategory == <<"K", "e", "e", "p">>
UpKeepCategory == <<"U", "p", "K", "e", "e", "p">>
CatValues == {NoCategory, KeepCategory, UpKeepCategory}

\* The keep word in the two other letter cases, as a user may type it.
LowerKeepCategory == <<"k", "e", "e", "p">>
UpperKeepCategory == <<"K", "E", "E", "P">>
TypedValues == CatValues \cup {LowerKeepCategory, UpperKeepCategory}

\* The compiled default pattern, a literal word.
KEEP_CATEGORY_REGEX == <<"K", "e", "e", "p">>

\* Pattern.match(string, pos): the literal pattern anchored at index pos of the
\* string (0-based, clamped to the length of the string), letter case kept.
PatternMatch(pattern, string, pos) ==
    LET p == IF pos > Len(string) THEN Len(string) ELSE pos
    IN  /\ p + Len(pattern) <= Len(string)
        /\ \A i \in 1..Len(pattern) : string[p + i] = pattern[i]

\* KEEP_CATEGORY_REGEX.match(categories, re.IGNORECASE)
KeepCategoryMatch(categories) ==
    PatternMatch(KEEP_CATEGORY_REGEX, categories, IGNORECASE)

\* ------------------------------------------------------------ the decision
\* A plausible slip: sorted(..., key=CreationTime), the entry id left out of
\* the order.
TimeLess(a, b) ==
    a[1] < b[1]

\* Python's order on the (CreationTime, EntryId) tuples.
TupleLess(a, b) ==
    \/ a[1] < b[1]
    \/ a[1] = b[1] /\ a[2] < b[2]

RemoveAt(list, i) ==
    [j \in 1..(Len(list) - 1) |-> IF j < i THEN list[j] ELSE list[j + 1]]

RECURSIVE SortedReverse(_)
\* sorted(list, reverse=True)
SortedReverse(list) ==
    IF list = <<>>
    THEN <<>>
    ELSE LET i == CHOOSE k \in DOMAIN list :
                      \A j \in DOMAIN list : ~TupleLess(list[k], list[j])
         IN  <<list[i]>> \o SortedReverse(RemoveAt(list, i))

Range(list) == {list[i] : i \in DOMAIN list}

\* A plausible slip: ascending sort, the oldest kept.
MarkAllButOldest(list) ==
    LET s == SortedReverse(list)
    IN  {s[i][2] : i \in 1..(Len(s) - 1)}

\* A plausible slip: [0:] for [1:], the newest marked with the others.
MarkEveryConversationItem(list) ==
    {t[2] : t \in Range(SortedReverse(list))}

\* mark_conversation_items_other_than_the_last_to_be_deleted, for one list
MarkConversationItemsOtherThanTheLast(list) ==
    {t[2] : t \in Range(Tail(SortedReverse(list)))}

\* A plausible slip: > for <.
MarkYoungerMessages(list, older_than_timestamp) ==
    {t[2] : t \in {u \in Range(list) : u[1] > older_than_timestamp}}

\* A plausible slip: <= for <.
MarkOlderOrEqualMessages(list, older_than_timestamp) ==
    {t[2] : t \in {u \in Range(list) : u[1] <= older_than_timestamp}}

\* mark_older_messages_to_be_deleted, for one list
MarkOlderMessages(list, older_than_timestamp) ==
    {t[2] : t \in {u \in Range(list) : u[1] < older_than_timestamp}}

\* determine_items_to_be_deleted
DetermineItemsToBeDeleted(mails, older_than_timestamp) ==
    UNION {MarkOlderMessages(mails[c], older_than_timestamp)
             \cup MarkConversationItemsOtherThanTheLast(mails[c]) :
           c \in DOMAIN mails}

\* ------------------------------------------------------------ the catalog
\* get_item_data's result for a message that could be fetched
ItemData(id, conversation, time, categories) ==
    [EntryId |-> id, ConversationId |-> conversation,
     CreationTime |-> time, Categories |-> categories]

\* get_item_data's None, for a message that could not be fetched
NoItemData == ItemData(None, None, None, NoCategory)

\* A plausible slip: > for >= in the filter of line 135.
FilterItemsAfterStart(list, start) ==
    LET retrieved == SelectSeq(list, LAMBDA it : it # NoItemData)
        recent == SelectSeq(retrieved, LAMBDA it : it.CreationTime > start)
    IN  SelectSeq(recent, LAMBDA it : ~KeepCategoryMatch(it.Categories))

\* retrieve_emails, lines 134-136: the three list filters
FilterItems(list, start) ==
    LET retrieved == SelectSeq(list, LAMBDA it : it # NoItemData)
        recent == SelectSeq(retrieved, LAMBDA it : it.CreationTime >= start)
    IN  SelectSeq(recent, LAMBDA it : ~KeepCategoryMatch(it.Categories))

\* A plausible slip: emails[key] = [...] for emails[key].append(...), the last
\* item of a conversation replacing the ones before it.
GroupItemsLastOnly(list) ==
    [c \in {list[i].ConversationId : i \in DOMAIN list} |->
        LET own == SelectSeq(list, LAMBDA it : it.ConversationId = c)
        IN  <<<<own[Len(own)].CreationTime, own[Len(own)].EntryId>>>>]

\* retrieve_emails, lines 137-142: the defaultdict of (CreationTime, EntryId)
GroupItems(list) ==
    [c \in {list[i].ConversationId : i \in DOMAIN list} |->
        LET own == SelectSeq(list, LAMBDA it : it.ConversationId = c)
        IN  [i \in 1..Len(own) |-> <<own[i].CreationTime, own[i].EntryId>>]]


\* ------------------------------------------------------------------- state
VARIABLES
    variant,        \* "desktop" (CleanupEmails.py) or "hosted" (email_cleanup.py)
    conv,           \* the mail store: ConversationId of every message
    ct,             \*   CreationTime / datetime_received
    fld,            \*   the folder the message was delivered to
    cat,            \*   Categories, as the store holds them now
    unread,         \*   Unread
    loc,            \*   "folder" (in fld), "deleted" (Deleted Items), "erased"
    start_date,     \* --start-date
    older_than,     \* --older-than
    pc,             \* the statement the run is at
    folderIdx,      \* position in the list of folders
    msgIds,         \* quick_retrieve_items_from_folders: msgIds
    toFetch,        \* retrieve_emails: the ids line 133 has not reached yet
    items,          \* retrieve_emails: items
    emails,         \* main: emails
    to_be_deleted,  \* main: to_be_deleted
    todo,           \* delete_items: the ids of to_be_deleted the loop has not reached
    cur,            \* the message held in item / email_item, None if none
    processed,      \* delete_items: processed
    deleted,        \* delete_items: deleted
    message_count,  \* get_repeated_items: message_count
    unique_messages_on_folder,  \* get_repeated_items: unique_messages_on_folder
    pending,        \* remove_older_items_from_conversations: the items still to delete
    events,         \* faults and foreign changes so far
    extRemoved,     \* history: the messages another process removed
    unreported,     \* history: the messages whose progress call (line 66) failed
    progressCalls,  \* history: the calls of progress by delete_items, per id
    checkedCat,     \* history: the Categories line 267 read, per message
    movedCat,       \* history: the Categories in the store when line 270 moved it
    crash,          \* the exception that ended the run, if any
    run             \* 1 in the first run of the program, 2 when it is run again

vars == <<variant, conv, ct, fld, cat, unread, loc, start_date, older_than, pc,
          folderIdx, msgIds, toFetch, items, emails, to_be_deleted, todo, cur,
          processed, deleted, message_count, unique_messages_on_folder, pending,
          events, extRemoved, unreported, progressCalls, checkedCat, movedCat,
          crash, run>>

store == <<conv, ct, fld>>
policy == <<variant, start_date, older_than>>
desktopLocals == <<msgIds, toFetch, items, emails, to_be_deleted, todo,
                   processed, deleted, checkedCat, movedCat>>
hostedLocals == <<message_count, unique_messages_on_folder, pending>>

Unseen == <<"?">>
NoCrash == [op |-> "none", absent |-> FALSE]

EmptyMap == [c \in {} |-> <<>>]

\* The messages a folder holds now.
InFolder(f) == {m \in Msgs : loc[m] = "folder" /\ fld[m] = f}

Min(S) == CHOOSE x \in S : \A y \in S : x <= y

RECURSIVE ItemList(_)
\* What get_item_data answers for the ids of a set, every fetch answered, in
\* ascending order of the ids.
ItemList(S) ==
    IF S = {}
    THEN <<>>
    ELSE LET id == Min(S)
         IN  <<ItemData(id, conv[id], ct[id], cat[id])>> \o ItemList(S \ {id})

\* ----------------------------------------------------------- initial states
\* Two conversations, the messages of the first before those of the second.
ConvShapes ==
    {f \in [Msgs -> Convs] :
        /\ f[1] = 1
        /\ \A m \in Msgs \ {1} : f[m] >= f[m - 1]}

\* Every folder holds mail; the last message may lie in any folder.
FolderShapes ==
    {f \in [Msgs -> Folders] : \A m \in Msgs \ {NumMsgs} : f[m] = 1}

\* The creation times of the runs: all messages of one age, or the first one
\* younger than the others.
TimeShapes ==
    {[m \in Msgs |-> DefaultStartDate],
     [m \in Msgs |-> IF m = 1 THEN MaxTime ELSE DefaultStartDate]}

\* (--start-date, --older-than) of the runs: both left alone, one of them set,
\* both set.
RunPolicies ==
    {<<DefaultStartDate, DefaultStartDate>>, <<DefaultStartDate, MaxTime>>,
     <<MaxTime, DefaultStartDate>>, <<MaxTime, MaxTime>>}

\* What the command line admits (lines 379-382): at most one of the two dates set.
ValidPolicies ==
    {p \in Times \X CutoffTimes : p[1] = DefaultStartDate \/ p[2] = DefaultStartDate}

InitRun(mailConv, mailTime, mailFolder, mailCat, kinds, policies) ==
    /\ variant \in kinds
    /\ conv \in mailConv
    /\ ct \in mailTime
    /\ fld \in mailFolder
    /\ cat \in mailCat
    /\ unread = [m \in Msgs |-> TRUE]
    /\ loc = [m \in Msgs |-> "folder"]
    /\ \E p \in policies :
        /\ start_date = p[1]
        /\ older_than = p[2]
        /\ variant = "hosted" => p = <<DefaultStartDate, DefaultStartDate>>
    /\ pc = "start"
    /\ folderIdx = 1
    /\ msgIds = {}
    /\ toFetch = {}
    /\ items = <<>>
    /\ emails = EmptyMap
    /\ to_be_deleted = {}
    /\ todo = {}
    /\ cur = None
    /\ processed = 0
    /\ deleted = 0
    /\ message_count = 0
    /\ unique_messages_on_folder = EmptyMap
    /\ pending = <<>>
    /\ events = 0
    /\ extRemoved = {}
    /\ unreported = {}
    /\ progressCalls = [m \in Msgs |-> 0]
    /\ checkedCat = [m \in Msgs |-> Unseen]
    /\ movedCat = [m \in Msgs |-> Unseen]
    /\ crash = NoCrash
    /\ run = 1

\* The runs: a quiet or a disturbed run of either variant over a small mailbox.
Init ==
    InitRun(ConvShapes, TimeShapes, FolderShapes, {[m \in Msgs |-> NoCategory]},
            {"desktop", "hosted"}, RunPolicies)

\* The decision: every mailbox of the bounds, every admitted policy.
InitDecision ==
    InitRun(ConvShapes, [Msgs -> Times], {[m \in Msgs |-> 1]}, [Msgs -> CatValues],
            {"desktop"}, ValidPolicies)

\* ------------------------------------------------ the run, desktop variant
Raise(op, absent) ==
    /\ pc' = "crashed"
    /\ crash' = [op |-> op, absent |-> absent]

\* A plausible slip: the test of lines 381-382 left out.
MainWithoutValidation ==
    /\ pc = "start"
    /\ pc' = IF variant = "hosted" THEN "h_count" ELSE "quick"
    /\ UNCHANGED <<store, policy, run, cat, unread, loc, folderIdx,
                   desktopLocals,
                   hostedLocals, cur, events, extRemoved,
                   unreported, progressCalls, crash>>

\* __main__, lines 379-384, and the call of main
Main ==
    /\ pc = "start"
    /\ IF variant = "hosted"
       THEN pc' = "h_count"
       ELSE IF start_date # DefaultStartDate /\ older_than # DefaultStartDate
            THEN pc' = "rejected"
            ELSE pc' = "quick"
    /\ UNCHANGED <<store, policy, run, cat, unread, loc, folderIdx,
                   desktopLocals,
                   hostedLocals, cur, events, extRemoved,
                   unreported, progressCalls, crash>>

\* quick_retrieve_items_from_folders, one turn of the loop of line 114: the
\* progress call of line 115, which no handler encloses, then the ids of the
\* folder
QuickRetrieve ==
    /\ pc = "quick"
    /\ \/ /\ events < MaxEvents
          /\ events' = events + 1
          /\ Raise("progress", FALSE)
          /\ UNCHANGED <<msgIds, toFetch, folderIdx>>
       \/ /\ LET ids == msgIds \cup {m \in InFolder(folderIdx) : ct[m] >= start_date}
             IN  /\ msgIds' = ids
                 /\ IF folderIdx = NumFolders
                    THEN /\ pc' = "fetch"
                         /\ toFetch' = ids
                         /\ folderIdx' = 1
                    ELSE /\ pc' = pc
                         /\ toFetch' = toFetch
                         /\ folderIdx' = folderIdx + 1
          /\ UNCHANGED <<events, crash>>
    /\ UNCHANGED <<store, policy, run, cat, unread, loc, items, emails,
                   to_be_deleted,
                   todo, processed, deleted, checkedCat, movedCat, hostedLocals,
                   cur, extRemoved, unreported, progressCalls>>

\* A plausible slip: get_item_data without its try, a failed fetch ends the run.
GetItemDataUnguarded ==
    /\ pc = "fetch"
    /\ toFetch # {}
    /\ LET id == Min(toFetch)
       IN  \/ /\ loc[id] # "erased"
              /\ toFetch' = toFetch \ {id}
              /\ items' = Append(items, ItemData(id, conv[id], ct[id], cat[id]))
              /\ UNCHANGED <<pc, events, crash>>
           \/ /\ loc[id] = "erased"
              /\ Raise("GetItemFromID", TRUE)
              /\ UNCHANGED <<toFetch, items, events>>
           \/ /\ loc[id] # "erased"
              /\ events < MaxEvents
              /\ events' = events + 1
              /\ Raise("GetItemFromID", FALSE)
              /\ UNCHANGED <<toFetch, items>>
    /\ UNCHANGED <<store, policy, run, cat, unread, loc, folderIdx, msgIds,
                   emails,
                   to_be_deleted, todo, processed, deleted, checkedCat, movedCat,
                   hostedLocals, cur, extRemoved, unreported, progressCalls>>

\* get_item_data, one element of the comprehension of line 133: the item is
\* answered; or it is gone, or the fetch of line 67 fails; or the fetch answers
\* and the progress call of lines 68-72 fails inside the same try
GetItemData ==
    /\ pc = "fetch"
    /\ toFetch # {}
    /\ LET id == Min(toFetch)
       IN  /\ toFetch' = toFetch \ {id}
           /\ \/ /\ loc[id] # "erased"
                 /\ items' = Append(items, ItemData(id, conv[id], ct[id], cat[id]))
                 /\ UNCHANGED <<events, unreported, progressCalls>>
              \/ /\ loc[id] = "erased"
                 /\ items' = Append(items, NoItemData)
                 /\ UNCHANGED <<events, unreported, progressCalls>>
              \/ /\ loc[id] # "erased"
                 /\ events < MaxEvents
                 /\ items' = Append(items, NoItemData)
                 /\ events' = events + 1
                 /\ unreported' = unreported
              \/ /\ loc[id] # "erased"
                 /\ events < MaxEvents
                 /\ items' = Append(items, NoItemData)
                 /\ events' = events + 1
                 /\ unreported' = unreported \cup {id}
    /\ UNCHANGED <<store, policy, run, cat, unread, loc, pc, folderIdx, msgIds,
                   emails,
                   to_be_deleted, todo, processed, deleted, checkedCat, movedCat,
                   hostedLocals, cur, extRemoved, progressCalls, crash>>

\* retrieve_emails, lines 134-142
FilterAndGroup ==
    /\ pc = "fetch"
    /\ toFetch = {}
    /\ emails' = GroupItems(FilterItems(items, start_date))
    /\ items' = <<>>
    /\ pc' = "decide"
    /\ UNCHANGED <<store, policy, run, cat, unread, loc, folderIdx, msgIds,
                   toFetch,
                   to_be_deleted, todo, processed, deleted, checkedCat, movedCat,
                   hostedLocals, cur, events, extRemoved,
                   unreported, progressCalls, crash>>

\* A plausible slip: delete_items handed the ids of the whole catalog.
DetermineThenDeleteAll ==
    /\ pc = "decide"
    /\ to_be_deleted' = DetermineItemsToBeDeleted(emails, older_than)
    /\ todo' = UNION {{t[2] : t \in Range(emails[c])} : c \in DOMAIN emails}
    /\ pc' = "delete"
    /\ UNCHANGED <<store, policy, run, cat, unread, loc, folderIdx, msgIds,
                   toFetch,
                   items, emails, processed, deleted, checkedCat, movedCat,
                   hostedLocals, cur, events, extRemoved, unreported,
                   progressCalls, crash>>

\* main, line 331
Determine ==
    /\ pc = "decide"
    /\ to_be_deleted' = DetermineItemsToBeDeleted(emails, older_than)
    /\ todo' = to_be_deleted'
    /\ pc' = "delete"
    /\ UNCHANGED <<store, policy, run, cat, unread, loc, folderIdx, msgIds,
                   toFetch,
                   items, emails, processed, deleted, checkedCat, movedCat,
                   hostedLocals, cur, events, extRemoved,
                   unreported, progressCalls, crash>>

\* A plausible slip: the counter of line 257 forgotten.
SameCount(n) == n

\* processed += 1, line 257
CountProcessed(n) == n + 1

\* deleted += 1, line 271
CountDeleted(n) == n + 1

\* A plausible slip: the progress call of line 258 left out.
NoReport(calls, id) == calls

\* progress(...), lines 258-262, for the id the loop is at
ReportProgress(calls, id) == [calls EXCEPT ![id] = @ + 1]

\* The id is marked by the cutoff rule and by the keep-newest rule.
MarkedByBoth(e) ==
    \E c \in DOMAIN emails :
        e \in MarkOlderMessages(emails[c], older_than)
                \cap MarkConversationItemsOtherThanTheLast(emails[c])

\* A plausible slip: the marks of the two rules gathered in a list, not a set,
\* so that the loop comes twice to an id marked by both.
RestWithRepeats(ids, e) ==
    IF MarkedByBoth(e) /\ progressCalls[e] = 0 THEN ids ELSE ids \ {e}

\* for entry_id_to_delete in to_be_deleted, line 256: what is left of a set
\* (lines 198, 213) after the loop took e
Rest(ids, e) == ids \ {e}

\* delete_items, lines 256-266: the next id, the counter, the progress call,
\* the fetch by id
DeleteNext ==
    /\ pc = "delete"
    /\ \E e \in todo :
        /\ todo' = Rest(todo, e)
        /\ processed' = CountProcessed(processed)
        /\ progressCalls' = ReportProgress(progressCalls, e)
        /\ \/ /\ loc[e] # "erased"
              /\ cur' = e
              /\ pc' = "check"
              /\ events' = events
           \/ /\ loc[e] = "erased"
              /\ cur' = None
              /\ pc' = "delete"
              /\ events' = events
           \/ /\ loc[e] # "erased"
              /\ events < MaxEvents
              /\ cur' = None
              /\ pc' = "delete"
              /\ events' = events + 1
    /\ UNCHANGED <<store, policy, run, cat, unread, loc, folderIdx, msgIds,
                   toFetch,
                   items, emails, to_be_deleted, deleted, checkedCat, movedCat,
                   hostedLocals, extRemoved, unreported, crash>>

\* delete_items, lines 267-268
CheckCategories ==
    /\ pc = "check"
    /\ \/ /\ loc[cur] = "erased"
          /\ Raise("Categories", TRUE)
          /\ UNCHANGED <<cur, checkedCat>>
       \/ /\ checkedCat' = [checkedCat EXCEPT ![cur] = cat[cur]]
          /\ crash' = crash
          /\ IF KeepCategoryMatch(cat[cur])
             THEN pc' = "delete" /\ cur' = None
             ELSE pc' = "mark" /\ cur' = cur
    /\ UNCHANGED <<store, policy, run, cat, unread, loc, folderIdx, msgIds,
                   toFetch,
                   items, emails, to_be_deleted, todo, processed, deleted, movedCat,
                   hostedLocals, events, extRemoved, unreported, progressCalls>>

\* delete_items, line 269
MarkRead ==
    /\ pc = "mark"
    /\ \/ /\ loc[cur] = "erased"
          /\ Raise("Unread", TRUE)
          /\ UNCHANGED <<unread, events>>
       \/ /\ loc[cur] # "erased"
          /\ events < MaxEvents
          /\ events' = events + 1
          /\ Raise("Unread", FALSE)
          /\ UNCHANGED unread
       \/ /\ loc[cur] # "erased"
          /\ unread' = [unread EXCEPT ![cur] = FALSE]
          /\ pc' = "move"
          /\ UNCHANGED <<events, crash>>
    /\ UNCHANGED <<store, policy, run, cat, loc, folderIdx, desktopLocals,
                   hostedLocals,
                   cur, extRemoved, unreported, progressCalls>>

\* delete_items, lines 270-271
Move ==
    /\ pc = "move"
    /\ \/ /\ loc[cur] = "erased"
          /\ Raise("Move", TRUE)
          /\ UNCHANGED <<loc, deleted, movedCat, cur, events>>
       \/ /\ loc[cur] # "erased"
          /\ events < MaxEvents
          /\ events' = events + 1
          /\ Raise("Move", FALSE)
          /\ UNCHANGED <<loc, deleted, movedCat, cur>>
       \/ /\ loc[cur] # "erased"
          /\ loc' = [loc EXCEPT ![cur] = "deleted"]
          /\ movedCat' = [movedCat EXCEPT ![cur] = cat[cur]]
          /\ deleted' = CountDeleted(deleted)
          /\ cur' = None
          /\ pc' = "delete"
          /\ UNCHANGED <<events, crash>>
    /\ UNCHANGED <<store, policy, run, cat, unread, folderIdx, msgIds, toFetch,
                   items,
                   emails, to_be_deleted, todo, processed, checkedCat, hostedLocals,
                   extRemoved, unreported, progressCalls>>

\* A plausible slip: the folders scanned again after the deletions, while
\* anything was deleted.
FinishThenScanAgain ==
    /\ pc = "delete"
    /\ todo = {}
    /\ pc' = IF to_be_deleted # {} THEN "quick" ELSE "done"
    /\ UNCHANGED <<store, policy, run, cat, unread, loc, folderIdx,
                   desktopLocals,
                   hostedLocals, cur, events, extRemoved,
                   unreported, progressCalls, crash>>

\* A plausible slip: the return of line 272 indented into the loop, the
\* function left after the first id.
FinishInsideLoop ==
    /\ pc = "delete"
    /\ todo = {} \/ processed >= 1
    /\ pc' = "done"
    /\ UNCHANGED <<store, policy, run, cat, unread, loc, folderIdx, desktopLocals,
                   hostedLocals, cur, events, extRemoved,
                   unreported, progressCalls, crash>>

\* delete_items, line 272, and main, line 333
Finish ==
    /\ pc = "delete"
    /\ todo = {}
    /\ pc' = "done"
    /\ UNCHANGED <<store, policy, run, cat, unread, loc, folderIdx,
                   desktopLocals,
                   hostedLocals, cur, events, extRemoved,
                   unreported, progressCalls, crash>>


\* ------------------------------------------------- the run, hosted variant
\* The conversation ids of a list in the order of their first item: the order
\* of the keys of the defaultdict.
RECURSIVE KeyOrder(_)
KeyOrder(list) ==
    IF list = <<>>
    THEN <<>>
    ELSE LET rest == KeyOrder(SelectSeq(Tail(list),
                         LAMBDA it : it.ConversationId # Head(list).ConversationId))
         IN  <<Head(list).ConversationId>> \o rest

\* The ids of a list of tuples, in its order.
Ids(list) == [i \in DOMAIN list |-> list[i][2]]

RECURSIVE ToDelete(_, _)
\* remove_older_items_from_conversations, lines 153-166: the items the loops
\* reach, in their order
ToDelete(unique, keys) ==
    IF keys = <<>>
    THEN <<>>
    ELSE LET value == unique[Head(keys)]
             own == IF Len(value) > 1
                    THEN Ids(Tail(SortedReverse(value)))
                    ELSE <<>>
         IN  own \o ToDelete(unique, Tail(keys))

\* main, lines 207-209: the next folder of the loop, or the end
NextFolder ==
    IF folderIdx = NumFolders
    THEN pc' = "done" /\ folderIdx' = folderIdx
    ELSE pc' = "h_count" /\ folderIdx' = folderIdx + 1

\* get_repeated_items, lines 129-130: the count query answers or fails; main,
\* lines 207-209, has no handler around cleanup_folder
CountMessages ==
    /\ pc = "h_count"
    /\ \/ /\ message_count' = Cardinality(InFolder(folderIdx))
          /\ pc' = "h_enum"
          /\ UNCHANGED <<events, crash>>
       \/ /\ events < MaxEvents
          /\ events' = events + 1
          /\ Raise("enumerate", FALSE)
          /\ UNCHANGED message_count
    /\ UNCHANGED <<store, policy, run, cat, unread, loc, folderIdx,
                   desktopLocals,
                   unique_messages_on_folder, pending, cur, extRemoved,
                   unreported, progressCalls>>

\* get_repeated_items, lines 134-142: the records of one folder
GetRepeatedItems(f) == GroupItems(ItemList(InFolder(f)))

\* get_repeated_items, lines 134-143, and cleanup_folder, lines 121-124: the
\* folder is enumerated; or the enumeration of line 134 fails; or the progress
\* call of line 138 fails
CleanupFolder ==
    /\ pc = "h_enum"
    /\ \/ /\ LET unique == GetRepeatedItems(folderIdx)
                 queue == ToDelete(unique, KeyOrder(ItemList(InFolder(folderIdx))))
             IN  /\ unique_messages_on_folder' = unique
                 /\ IF message_count = Cardinality(DOMAIN unique) \/ queue = <<>>
                    THEN pending' = <<>> /\ NextFolder
                    ELSE pending' = queue /\ pc' = "h_get" /\ folderIdx' = folderIdx
          /\ UNCHANGED <<events, crash>>
       \/ /\ events < MaxEvents
          /\ events' = events + 1
          /\ Raise("enumerate", FALSE)
          /\ UNCHANGED <<unique_messages_on_folder, pending, folderIdx>>
       \/ /\ InFolder(folderIdx) # {}
          /\ events < MaxEvents
          /\ events' = events + 1
          /\ Raise("progress", FALSE)
          /\ UNCHANGED <<unique_messages_on_folder, pending, folderIdx>>
    /\ UNCHANGED <<store, policy, run, cat, unread, loc, desktopLocals,
                   message_count,
                   cur, extRemoved, unreported, progressCalls>>

\* remove_older_items_from_conversations, line 169
GetEmailItem ==
    /\ pc = "h_get"
    /\ LET id == Head(pending)
       IN  \/ /\ loc[id] # "folder"
              /\ Raise("get", TRUE)
              /\ UNCHANGED <<cur, events>>
           \/ /\ loc[id] = "folder"
              /\ events < MaxEvents
              /\ events' = events + 1
              /\ Raise("get", FALSE)
              /\ UNCHANGED cur
           \/ /\ loc[id] = "folder"
              /\ cur' = id
              /\ pc' = "h_delete"
              /\ UNCHANGED <<events, crash>>
    /\ UNCHANGED <<store, policy, run, cat, unread, loc, folderIdx,
                   desktopLocals,
                   hostedLocals, extRemoved, unreported, progressCalls>>

\* Item.delete() of exchangelib: the item is removed from the store for good
\* (move_to_trash() and soft_delete() are the recoverable calls).
AfterDelete == "erased"

\* remove_older_items_from_conversations, lines 170-171; is_read is set on the
\* local object only and never saved
DeleteEmailItem ==
    /\ pc = "h_delete"
    /\ \/ /\ loc[cur] # "folder"
          /\ Raise("delete", TRUE)
          /\ UNCHANGED <<loc, pending, cur, folderIdx, events>>
       \/ /\ loc[cur] = "folder"
          /\ events < MaxEvents
          /\ events' = events + 1
          /\ Raise("delete", FALSE)
          /\ UNCHANGED <<loc, pending, cur, folderIdx>>
       \/ /\ loc[cur] = "folder"
          /\ loc' = [loc EXCEPT ![cur] = AfterDelete]
          /\ pending' = Tail(pending)
          /\ cur' = None
          /\ IF Tail(pending) = <<>>
             THEN NextFolder
             ELSE pc' = "h_get" /\ folderIdx' = folderIdx
          /\ UNCHANGED <<events, crash>>
    /\ UNCHANGED <<store, policy, run, cat, unread, desktopLocals,
                   message_count,
                   unique_messages_on_folder, extRemoved, unreported, progressCalls>>

\* --------------------------------------------------------- the environment
Running == pc \notin {"start", "rejected", "done", "crashed"}

\* Another client of the mailbox edits the categories of a message.
ExternalEdit ==
    /\ Running
    /\ events < MaxEvents
    /\ \E m \in Msgs, c \in TypedValues :
        /\ loc[m] # "erased"
        /\ c # cat[m]
        /\ cat' = [cat EXCEPT ![m] = c]
    /\ events' = events + 1
    /\ UNCHANGED <<store, policy, run, unread, loc, pc, folderIdx,
                   desktopLocals,
                   hostedLocals, cur, extRemoved, unreported, progressCalls, crash>>

\* Another client of the mailbox removes a message.
ExternalRemove ==
    /\ Running
    /\ events < MaxEvents
    /\ \E m \in Msgs :
        /\ loc[m] = "folder"
        /\ loc' = [loc EXCEPT ![m] = "erased"]
        /\ extRemoved' = extRemoved \cup {m}
    /\ events' = events + 1
    /\ UNCHANGED <<store, policy, run, cat, unread, pc, folderIdx,
                   desktopLocals,
                   hostedLocals, cur, unreported, progressCalls, crash>>

\* Another client of the mailbox, or a rule of the server, moves a message to
\* another folder: it leaves the one and arrives in the other.
ExternalMove ==
    /\ Running
    /\ events < MaxEvents
    /\ \E m \in Msgs, f \in Folders :
        /\ loc[m] = "folder"
        /\ f # fld[m]
        /\ fld' = [fld EXCEPT ![m] = f]
    /\ events' = events + 1
    /\ UNCHANGED <<conv, ct, policy, run, cat, unread, loc, pc, folderIdx,
                   desktopLocals, hostedLocals, cur, extRemoved, unreported,
                   progressCalls, crash>>

\* ------------------------------------------------------- the specification
Next ==
    \/ Main
    \/ QuickRetrieve
    \/ GetItemData
    \/ FilterAndGroup
    \/ Determine
    \/ DeleteNext
    \/ CheckCategories
    \/ MarkRead
    \/ Move
    \/ Finish
    \/ CountMessages
    \/ CleanupFolder
    \/ GetEmailItem
    \/ DeleteEmailItem
    \/ ExternalEdit
    \/ ExternalRemove

Spec == Init /\ [][Next]_vars


\* retrieve_emails as one step, over a mailbox nobody else touches and with
\* every fetch answered
RetrieveEmails ==
    /\ pc = "start"
    /\ msgIds' = UNION {{m \in InFolder(f) : ct[m] >= start_date} : f \in Folders}
    /\ emails' = GroupItems(FilterItems(ItemList(msgIds'), start_date))
    /\ pc' = "decide"
    /\ UNCHANGED <<store, policy, run, cat, unread, loc, folderIdx, toFetch,
                   items,
                   to_be_deleted, todo, processed, deleted, checkedCat, movedCat,
                   hostedLocals, cur, events, extRemoved,
                   unreported, progressCalls, crash>>

NextDecision ==
    \/ RetrieveEmails
    \/ Determine

SpecDecision == InitDecision /\ [][NextDecision]_vars


\* The orders in which enumerate(msgIds), line 133, may run through a set of
\* ids: the iteration order of a Python set of strings is not fixed.
Orders(S) ==
    {s \in [1..Cardinality(S) -> S] : \A i, j \in DOMAIN s : i # j => s[i] # s[j]}

\* What get_item_data answers for the ids of a list, every fetch answered, in
\* the order of the list.
ItemsInOrder(order) ==
    [i \in DOMAIN order |->
        ItemData(order[i], conv[order[i]], ct[order[i]], cat[order[i]])]

\* retrieve_emails as one step, the ids presented in any order
RetrieveInSomeOrder ==
    /\ pc = "start"
    /\ LET ids == UNION {{m \in InFolder(f) : ct[m] >= start_date} : f \in Folders}
       IN  /\ msgIds' = ids
           /\ \E order \in Orders(ids) :
                 emails' = GroupItems(FilterItems(ItemsInOrder(order), start_date))
    /\ pc' = "decide"
    /\ UNCHANGED <<store, policy, run, cat, unread, loc, folderIdx, toFetch,
                   items,
                   to_be_deleted, todo, processed, deleted, checkedCat, movedCat,
                   hostedLocals, cur, events, extRemoved,
                   unreported, progressCalls, crash>>

\* The decision over catalogs in every order: every mailbox without categories,
\* every admitted policy.
InitOrder ==
    InitRun(ConvShapes, [Msgs -> Times], {[m \in Msgs |-> 1]},
            {[m \in Msgs |-> NoCategory]}, {"desktop"}, ValidPolicies)

NextOrder ==
    \/ RetrieveInSomeOrder
    \/ Determine

SpecOrder == InitOrder /\ [][NextOrder]_vars


\* The program started a second time with the same arguments, after a first
\* run that ended normally and that nothing disturbed: main and the functions
\* it calls start from fresh locals, the mail store is as the first run left it.
RunAgain ==
    /\ pc = "done"
    /\ run = 1
    /\ events = 0
    /\ run' = 2
    /\ pc' = "start"
    /\ folderIdx' = 1
    /\ msgIds' = {}
    /\ toFetch' = {}
    /\ items' = <<>>
    /\ emails' = EmptyMap
    /\ to_be_deleted' = {}
    /\ todo' = {}
    /\ cur' = None
    /\ processed' = 0
    /\ deleted' = 0
    /\ message_count' = 0
    /\ unique_messages_on_folder' = EmptyMap
    /\ pending' = <<>>
    /\ UNCHANGED <<store, policy, cat, unread, loc, events, extRemoved, unreported,
                   progressCalls, checkedCat, movedCat, crash>>

\* The mailboxes of the repeated runs: no categories, or the last message
\* under a category the pattern matches.
RepeatCategories ==
    {[m \in Msgs |-> NoCategory],
     [m \in Msgs |-> IF m = NumMsgs THEN UpKeepCategory ELSE NoCategory]}

\* Two runs of either variant in a row.
InitRepeat ==
    InitRun(ConvShapes, TimeShapes, FolderShapes, RepeatCategories,
            {"desktop", "hosted"}, RunPolicies)

NextRepeat ==
    \/ Main
    \/ QuickRetrieve
    \/ GetItemData
    \/ FilterAndGroup
    \/ Determine
    \/ DeleteNext
    \/ CheckCategories
    \/ MarkRead
    \/ Move
    \/ Finish
    \/ CountMessages
    \/ CleanupFolder
    \/ GetEmailItem
    \/ DeleteEmailItem
    \/ RunAgain

SpecRepeat == InitRepeat /\ [][NextRepeat]_vars


\* The hosted variant over a mailbox whose folders gain and lose messages
\* while it runs: every mailbox of the bounds without categories.
InitArrival ==
    InitRun(ConvShapes, [Msgs -> Times], FolderShapes,
            {[m \in Msgs |-> NoCategory]}, {"hosted"},
            {<<DefaultStartDate, DefaultStartDate>>})

NextArrival ==
    \/ Main
    \/ CountMessages
    \/ CleanupFolder
    \/ GetEmailItem
    \/ DeleteEmailItem
    \/ ExternalMove
    \/ ExternalRemove

SpecArrival == InitArrival /\ [][NextArrival]_vars


\* ================================================================== claims
\* What the documentation means by a message of a kept category: the pattern
\* matches its categories, letter case ignored (--keep-category-regex: "the
\* categories to be kept, ignoring case").
Lower(ch) ==
    CASE ch = "K" -> "k"
      [] ch = "E" -> "e"
      [] ch = "P" -> "p"
      [] ch = "U" -> "u"
      [] OTHER -> ch

MatchesKeepPattern(categories) ==
    /\ Len(KEEP_CATEGORY_REGEX) <= Len(categories)
    /\ \A i \in 1..Len(KEEP_CATEGORY_REGEX) :
          Lower(categories[i]) = Lower(KEEP_CATEGORY_REGEX[i])

IdsOf(list) == {t[2] : t \in Range(list)}

\* t is a message of the list no other message of it is younger than.
IsNewest(t, list) == \A u \in Range(list) : u[1] <= t[1]

\* All but one of the youngest messages of the conversation are marked.
AllButNewestMarked(list) ==
    \E t \in Range(list) :
        /\ IsNewest(t, list)
        /\ to_be_deleted \cap IdsOf(list) = IdsOf(list) \ {t[2]}

\* The messages the run itself took out of their folder.
EngineMoved == {m \in Msgs : loc[m] # "folder" /\ m \notin extRemoved}

C2_KeptCategoryNeverMarked ==
    pc = "delete" => \A m \in to_be_deleted : ~MatchesKeepPattern(cat[m])

\* C3: a message whose categories match the keep pattern when the executor
\* fetches it is not moved by the executor.
C3_ExemptAtFetchNotMoved ==
    \A m \in Msgs : MatchesKeepPattern(checkedCat[m]) => movedCat[m] = Unseen

\* C4: no message is moved to Deleted Items at a moment when its categories in
\* the store match the keep pattern.
C4_NeverMovedWhileKept ==
    \A m \in Msgs : ~MatchesKeepPattern(movedCat[m])

\* C5: no failure of the fetch, the marking or the move of one message leaves
\* the loop of the executor: the run never ends on such an exception.
C5_NoItemFailureEndsRun ==
    ~(pc = "crashed" /\ crash.op \in {"Categories", "Unread", "Move", "get", "delete"})

\* C6: an id that is no longer in the store when the executor comes to it is
\* skipped without an error.
C6_AbsentIdIsSkipped ==
    ~(pc = "crashed" /\ crash.absent)

\* C7: the run erases no message: a message that left the store was removed by
\* somebody else.
C7_NeverErased ==
    \A m \in Msgs : loc[m] = "erased" => m \in extRemoved

\* C8: deleted <= processed <= len(to_be_deleted) at every point of delete_items.
C8_Counters ==
    /\ deleted <= processed
    /\ processed <= Cardinality(to_be_deleted)

\* The executor is past its loop with one id skipped.
C8_Witness ==
    /\ pc = "done"
    /\ deleted >= 1
    /\ deleted < processed
    /\ processed = Cardinality(to_be_deleted)

\* C9 as stated: while any folder is still being retrieved, grouped or decided,
\* the run has moved or deleted no message.
C9_NothingMovedBeforeDecision ==
    pc \in {"quick", "fetch", "decide", "h_count", "h_enum"} => EngineMoved = {}

\* C9 as amended: in the desktop variant no message is moved before retrieval
\* from every folder, grouping and the decision are complete; in the hosted
\* variant the phases run in this order folder by folder, so that a folder is
\* enumerated after the deletions in the folders before it and never after a
\* deletion in itself or in a later folder.
C9_PhaseOrder ==
    /\ (variant = "desktop" /\ pc \in {"start", "quick", "fetch", "decide"})
          => EngineMoved = {}
    /\ (variant = "hosted" /\ pc \in {"start", "h_count", "h_enum"})
          => \A m \in EngineMoved : fld[m] < folderIdx

\* The hosted run enumerates the second folder after a deletion in the first.
C9_Witness ==
    /\ variant = "hosted"
    /\ pc = "h_enum"
    /\ folderIdx > 1
    /\ \E m \in EngineMoved : fld[m] < folderIdx

\* C10: every message of the catalog older than the cutoff is in the deletion
\* set, the youngest and the only one of a conversation too; the cutoff rule
\* marks no message as old as the cutoff.
C10_OlderThanCutoffMarked ==
    pc = "delete" =>
        \A c \in DOMAIN emails :
            /\ \A t \in Range(emails[c]) : t[1] < older_than => t[2] \in to_be_deleted
            /\ \A t \in Range(emails[c]) :
                  (t[1] = older_than /\ \A u \in Range(emails[c]) : ~TupleLess(t, u))
                      => t[2] \notin to_be_deleted

\* A conversation of one message older than the cutoff, marked, next to a
\* message as old as the cutoff, not marked.
C10_Witness ==
    /\ pc = "delete"
    /\ older_than # DefaultStartDate
    /\ \E c \in DOMAIN emails :
        /\ Len(emails[c]) = 1
        /\ emails[c][1][1] < older_than
        /\ emails[c][1][2] \in to_be_deleted
    /\ \E c \in DOMAIN emails : \E t \in Range(emails[c]) :
        /\ t[1] = older_than
        /\ t[2] \notin to_be_deleted

\* The categories hold the keep word somewhere, in any letter case.
ContainsKeepWord(categories) ==
    \E pos \in 0..(Len(categories) - Len(KEEP_CATEGORY_REGEX)) :
        \A i \in 1..Len(KEEP_CATEGORY_REGEX) :
            Lower(categories[pos + i]) = Lower(KEEP_CATEGORY_REGEX[i])

\* The messages of a conversation that are still in their folder.
Survivors(c) == {m \in Msgs : conv[m] = c /\ loc[m] = "folder"}

\* C11: after a run without faults and foreign changes, of every conversation
\* whose messages are all inside the retrieval window and of no kept category,
\* at most one message is still in a folder, whatever folders they lie in.
C11_AtMostOneSurvivor ==
    (pc = "done" /\ events = 0) =>
        \A c \in Convs :
            (\A m \in Msgs :
                conv[m] = c => ct[m] >= start_date /\ ~ContainsKeepWord(cat[m]))
                    => Cardinality(Survivors(c)) <= 1

\* C12: for every catalog, the deletion set computed with a cutoff is contained
\* in the deletion set computed with any later cutoff.  (Every catalog is the
\* catalog of a run that leaves --older-than alone: the cutoff has no part in
\* building it.)
C12_CutoffMonotone ==
    (pc = "delete" /\ older_than = DefaultStartDate) =>
        \A c1, c2 \in CutoffTimes :
            c1 < c2 => DetermineItemsToBeDeleted(emails, c1)
                          \subseteq DetermineItemsToBeDeleted(emails, c2)

\* The run marked some message, and a later cutoff marks these and more.
C12_Witness ==
    /\ pc = "delete"
    /\ to_be_deleted # {}
    /\ \E c2 \in CutoffTimes :
        /\ older_than < c2
        /\ to_be_deleted \subseteq DetermineItemsToBeDeleted(emails, c2)
        /\ to_be_deleted # DetermineItemsToBeDeleted(emails, c2)

\* The catalog of the run had the ids been presented in ascending order.
AscendingCatalog == GroupItems(FilterItems(ItemList(msgIds), start_date))

\* C13: the decision step run again on the catalog and the policy of the run
\* gives the deletion set of the run, and so does the decision step run on the
\* same records presented in another order.
C13_SameDeletionSet ==
    pc = "delete" =>
        /\ DetermineItemsToBeDeleted(emails, older_than) = to_be_deleted
        /\ DetermineItemsToBeDeleted(AscendingCatalog, older_than) = to_be_deleted

\* A conversation of two messages of one age, presented the greater id first,
\* and the smaller id marked.
C13_Witness ==
    /\ pc = "delete"
    /\ emails # AscendingCatalog
    /\ \E c \in DOMAIN emails :
        /\ Len(emails[c]) = 2
        /\ emails[c][1][1] = emails[c][2][1]
        /\ emails[c][1][1] >= older_than
        /\ emails[c][1][2] > emails[c][2][2]
        /\ emails[c][2][2] \in to_be_deleted
        /\ emails[c][1][2] \notin to_be_deleted

\* The ids of the records of a catalog.
CatalogIds(mails) == UNION {IdsOf(mails[c]) : c \in DOMAIN mails}

\* C14: a message whose categories, as fetched, hold the keep word in any letter
\* case is left out of the catalog when it is built (line 136), and a message
\* whose categories hold it when the executor tests them (line 267) is not
\* passed on to be marked read and moved.
C14_KeepWordAnyCase ==
    [][/\ (pc = "fetch" /\ pc' = "decide") =>
            \A i \in DOMAIN items :
                ContainsKeepWord(items[i].Categories)
                    => items[i].EntryId \notin CatalogIds(emails')
       /\ (pc = "check" /\ pc' = "mark") => ~ContainsKeepWord(cat[cur])]_vars

\* C15: no run ends on the fetch of a message for the catalog, and when the
\* catalog is complete it holds every id of msgIds but the ones a fault or a
\* foreign change took away, at most one for each of them.
C15_UnfetchableDropped ==
    /\ crash.op # "GetItemFromID"
    /\ pc = "decide" => Cardinality(msgIds \ CatalogIds(emails)) <= events

\* The fetch of one message failed, the message being in its folder; the
\* catalog holds all the others.
C15_Witness ==
    /\ pc = "decide"
    /\ \E m \in msgIds \ unreported :
        /\ loc[m] = "folder"
        /\ cat[m] = NoCategory
        /\ CatalogIds(emails) = msgIds \ {m}
        /\ CatalogIds(emails) # {}

\* C16: a failure of the enumeration of a folder ends the work on that folder
\* only: the run does not end on it while folders are still to be enumerated.
C16_OtherFoldersStillCleaned ==
    (pc = "crashed" /\ crash.op = "enumerate") => folderIdx = NumFolders

\* C17: a run given both --start-date and --older-than other than the default
\* goes from its start to the rejection and nowhere else: no folder is
\* enumerated, no message is fetched, marked read or moved.
C17_RejectedAtBoundary ==
    (variant = "desktop" /\ start_date # DefaultStartDate
                         /\ older_than # DefaultStartDate) =>
        /\ pc \in {"start", "rejected"}
        /\ folderIdx = 1
        /\ msgIds = {}
        /\ items = <<>>
        /\ emails = EmptyMap
        /\ \A m \in Msgs : loc[m] = "folder" /\ unread[m]

\* A run over a mailbox with a conversation of two messages was rejected.
C17_Witness ==
    /\ pc = "rejected"
    /\ start_date # DefaultStartDate
    /\ older_than # DefaultStartDate
    /\ \E m, n \in Msgs : m # n /\ conv[m] = conv[n]

\* The messages of a conversation inside the retrieval window.
Retrieved(c) == {m \in Msgs : conv[m] = c /\ ct[m] >= start_date}

\* m is the most recent message of the set, in the order of the sort.
MostRecent(m, S) == \A n \in S : ~TupleLess(<<ct[m], m>>, <<ct[n], n>>)

\* C18: in a conversation whose most recent message is of a kept category,
\* every message that is not of a kept category is in the deletion set: the
\* kept position is taken by the exempt message.
C18_ExemptNewestTakesKeptPlace ==
    pc = "delete" =>
        \A c \in Convs : \A m \in Retrieved(c) :
            (MostRecent(m, Retrieved(c)) /\ ContainsKeepWord(cat[m])) =>
                \A n \in Retrieved(c) :
                    ~ContainsKeepWord(cat[n]) => n \in to_be_deleted

\* C19: no run ends on a failure of the progress reporter during retrieval, and
\* a message whose progress call failed, still in its folder and of no kept
\* category, is in the catalog as it would be had the call succeeded.
C19_ProgressFailureHarmless ==
    /\ ~(pc = "crashed" /\ crash.op = "progress")
    /\ pc = "decide" =>
          \A m \in unreported :
              (loc[m] = "folder" /\ cat[m] = NoCategory) => m \in CatalogIds(emails)

\* The records of a catalog: conversation, time and id of every message in it.
Records(mails) ==
    UNION {{<<c, t[1], t[2]>> : t \in Range(mails[c])} : c \in DOMAIN mails}

\* The records the exhaustive retrieval of the hosted variant gathers from the
\* folders of the mailbox.
ExhaustiveRecords == UNION {Records(GetRepeatedItems(f)) : f \in Folders}

\* C20: the catalog of the two-phase retrieval holds the records the exhaustive
\* retrieval gathers from the same mailbox, but for the messages older than
\* the start date.
C20_SameRecordSet ==
    pc = "decide" =>
        Records(emails) = {r \in ExhaustiveRecords : r[2] >= start_date}

\* The ids delete_items has called progress for.
Reported == {m \in Msgs : progressCalls[m] > 0}

\* C21 as stated: progress is called once for every id of the deletion set and
\* never twice, and only for an id whose attempt is over: the executor does not
\* hold the message of a reported id.
C21_ReportedAfterAttempt ==
    /\ \A m \in Msgs : progressCalls[m] <= 1
    /\ pc = "done" => Reported = to_be_deleted
    /\ cur \notin Reported

\* C21 as amended: progress is called once, and never twice, for every id the
\* loop of the executor comes to, when the loop takes the id and before the
\* attempt on it; the count it reports is the number of ids taken so far; a run
\* that comes to its end has reported every id of the deletion set.
C21_ReportedOncePerId ==
    variant = "desktop" =>
        /\ \A m \in Msgs : progressCalls[m] <= 1
        /\ Reported = to_be_deleted \ todo
        /\ processed = Cardinality(Reported)
        /\ pc \in {"check", "mark", "move"} => cur \in Reported
        /\ pc = "done" => Reported = to_be_deleted

\* The executor holds the second message it took, reported and not yet tested.
C21_Witness ==
    /\ pc = "check"
    /\ processed = 2
    /\ cur \in Reported
    /\ loc[cur] = "folder"

\* C22: every message the run took out of its folder was marked as read in the
\* store before it left.
C22_MovedOnlyWhenRead ==
    \A m \in EngineMoved : ~unread[m]

\* C23: in the desktop variant no message created before the start date is
\* among the ids retrieved, in the catalog or in the deletion set, and the run
\* moves none; in a quiet run a message created at the start date is in the
\* catalog.
C23_StartDateFilter ==
    variant = "desktop" =>
        /\ \A m \in Msgs :
              ct[m] < start_date =>
                  /\ m \notin msgIds
                  /\ m \notin CatalogIds(emails)
                  /\ m \notin to_be_deleted
                  /\ m \notin EngineMoved
        /\ (pc = "decide" /\ events = 0) =>
              \A m \in Msgs : ct[m] = start_date => m \in CatalogIds(emails)

\* A start date was given; the catalog holds the message created at that date
\* and not the older ones.
C23_Witness ==
    /\ pc = "decide"
    /\ start_date # DefaultStartDate
    /\ \E m \in Msgs : ct[m] = start_date /\ m \in CatalogIds(emails)
    /\ \E m \in Msgs : ct[m] < start_date /\ m \notin CatalogIds(emails)

\* The ids of the items the grouping loop of lines 138-141 was handed.
GroupedIds ==
    {it.EntryId : it \in Range(FilterItems(ItemList(msgIds), start_date))}

\* C24: every item handed to the grouping is in the list of its own
\* conversation, once, with its own time, and in no other list; the lists hold
\* nothing else and none is empty.
C24_GroupsPartitionItems ==
    pc = "decide" =>
        /\ \A m \in GroupedIds :
              /\ conv[m] \in DOMAIN emails
              /\ Cardinality({i \in DOMAIN emails[conv[m]] :
                                emails[conv[m]][i] = <<ct[m], m>>}) = 1
              /\ \A c \in DOMAIN emails : c # conv[m] => m \notin IdsOf(emails[c])
        /\ CatalogIds(emails) = GroupedIds
        /\ \A c \in DOMAIN emails :
              Len(emails[c]) = Cardinality({m \in GroupedIds : conv[m] = c})

\* A catalog of two conversations, one of a single message and one of two.
C24_Witness ==
    /\ pc = "decide"
    /\ \E c, d \in DOMAIN emails : Len(emails[c]) = 1 /\ Len(emails[d]) = 2

Newest(list) == {t \in Range(list) : IsNewest(t, list)}

\* Of the youngest messages of the list the one with the greatest id, and only
\* that one, is not marked.
OneNewestSurvives(list) ==
    \E t \in Newest(list) :
        /\ \A u \in Newest(list) : u[2] <= t[2]
        /\ t[2] \notin to_be_deleted
        /\ \A u \in Newest(list) \ {t} : u[2] \in to_be_deleted

\* C26 as stated: in every conversation of the catalog whose youngest messages
\* are two or more of one age, one of them, fixed by the records, is not in the
\* deletion set and the others are.
C26_TieLeavesOne ==
    pc = "delete" =>
        \A c \in DOMAIN emails :
            Cardinality(Newest(emails[c])) >= 2 => OneNewestSurvives(emails[c])

\* C26 as amended: the same for the conversations whose youngest messages are
\* not older than the cutoff; the one left is the one with the greatest id,
\* in whatever order the records were presented.
C26_TieAtOrAfterCutoffLeavesOne ==
    pc = "delete" =>
        \A c \in DOMAIN emails :
            (/\ Cardinality(Newest(emails[c])) >= 2
             /\ \A t \in Newest(emails[c]) : t[1] >= older_than)
                => OneNewestSurvives(emails[c])

\* Three messages of a conversation, the two youngest of one age and presented
\* the greater id first: the greater id is left, the two others are marked.
C26_Witness ==
    /\ pc = "delete"
    /\ \E c \in DOMAIN emails :
        /\ Len(emails[c]) = 3
        /\ Cardinality(Newest(emails[c])) = 2
        /\ \E i, j \in 1..3 :
            /\ i < j
            /\ emails[c][i] \in Newest(emails[c])
            /\ emails[c][j] \in Newest(emails[c])
            /\ emails[c][i][2] > emails[c][j][2]
            /\ to_be_deleted = IdsOf(emails[c]) \ {emails[c][i][2]}

\* The messages the run has changed: taken out of their folder, marked as read,
\* or fetched by the executor.
Touched ==
    EngineMoved \cup {m \in Msgs : ~unread[m] \/ checkedCat[m] # Unseen}

\* What the hosted variant puts in to_delete (lines 158-160): the messages with
\* a younger message of their conversation in their folder.
NotNewestInFolder ==
    {m \in Msgs : \E n \in Msgs : /\ conv[n] = conv[m]
                                   /\ fld[n] = fld[m]
                                   /\ TupleLess(<<ct[m], m>>, <<ct[n], n>>)}

\* C27: at every point of a run, finished or ended by an exception, the
\* messages the run has changed are in its deletion set (to_be_deleted in the
\* desktop variant, the to_delete lists in the hosted one), and the run edits
\* no categories.
C27_OnlyDeletionSetTouched ==
    /\ variant = "desktop" => Touched \subseteq to_be_deleted
    /\ variant = "hosted" => Touched \subseteq NotNewestInFolder
    /\ events = 0 => \A m \in Msgs : cat[m] = NoCategory

\* A run ended by a failing Move: the message it held is marked as read and
\* still in its folder, a message outside the deletion set is as it was.
C27_Witness ==
    /\ pc = "crashed"
    /\ crash.op = "Move"
    /\ cur \in to_be_deleted
    /\ ~unread[cur]
    /\ \E n \in Msgs \ to_be_deleted : n \notin Touched

\* The catalogued messages of a list created at or after the cutoff.
Current(list) == {t \in Range(list) : t[1] >= older_than}

\* C28: in the desktop variant, for every conversation of the catalog with a
\* message created at or after the cutoff, the newest such message, by
\* (CreationTime, EntryId), is not in the deletion set and is not moved by the
\* run.
C28_NewestCurrentStays ==
    \A c \in DOMAIN emails :
        \A t \in Current(emails[c]) :
            (\A u \in Current(emails[c]) : ~TupleLess(t, u))
                => /\ t[2] \notin to_be_deleted
                   /\ t[2] \notin EngineMoved

\* A finished run with a cutoff: a conversation with a message older than the
\* cutoff, moved, and its newest current message in its folder.
C28_Witness ==
    /\ pc = "done"
    /\ older_than # DefaultStartDate
    /\ \E c \in DOMAIN emails :
        /\ \E t \in Range(emails[c]) :
            t[1] < older_than /\ loc[t[2]] = "deleted"
        /\ \E t \in Current(emails[c]) :
            /\ \A u \in Current(emails[c]) : ~TupleLess(t, u)
            /\ loc[t[2]] = "folder"

\* C29: when the program is run again after a run that ended normally, with no
\* failure and no foreign change, the second run computes an empty deletion
\* set (to_be_deleted in the desktop variant, the to_delete lists in the hosted
\* one), takes no message out of its folder and marks none as read.
C29_SecondRunIdle ==
    [][run' = 2 => /\ to_be_deleted' = {}
                   /\ pending' = <<>>
                   /\ loc' = loc
                   /\ unread' = unread]_vars

\* A second desktop run at its end: the first run moved a message, the second
\* catalogued a message the first one left and decided on it.
C29_Witness ==
    /\ run = 2
    /\ pc = "done"
    /\ variant = "desktop"
    /\ \E m \in Msgs : loc[m] = "deleted"
    /\ \E n \in CatalogIds(emails) : loc[n] = "folder"

\* C30: in the hosted variant, when cleanup_folder has returned, every message
\* of the folder's enumeration with a younger message of its conversation in
\* the enumeration has left the folder, also when messages arrived in or left
\* the folder between the count query and the enumeration.
C30_OlderOfEnumeratedDeleted ==
    (variant = "hosted" /\ pc \in {"h_count", "done"})
        => \A c \in DOMAIN unique_messages_on_folder :
              \A id \in MarkConversationItemsOtherThanTheLast(
                            unique_messages_on_folder[c]) :
                  loc[id] # "folder"

====
